---- MODULE Spec2Model ----
(***************************************************************************)
(* The SAFE application plugin API (the `safeApp` module and the           *)
(* `safeCryptoPubSignKey` adapter) as a state machine.                     *)
(*                                                                         *)
(* Every exported operation is a chain of promise continuations.  The      *)
(* exported function calls getObj, whose promise is settled by the lookup  *)
(* itself, so the first continuation runs in the microtask checkpoint of   *)
(* the same event-loop turn: the call, the lookup and the call into the    *)
(* native object are one atomic step, op(c, ...).  The native call settles *)
(* in a later turn, and the continuation chained on it is the step         *)
(* op_done(c).  authorise and authoriseContainer have a third step, the    *)
(* callback handed to ipc.sendAuthReq.  `free` is synchronous and is one   *)
(* step.  Between two steps of one operation any step of another           *)
(* operation, and `free`, may run.                                         *)
(***************************************************************************)
EXTENDS Naturals, Sequences, FiniteSets, TLC

\* ------------------------------------------------------------------ bounds
MaxHandles   == 2   \* handles genHandle hands out in one run
MaxApps      == 1   \* sessions initialise creates in one run (Spec)
MaxAuthCalls == 2   \* unsettled promises at a time (SpecAuth)

Slots    == 1..MaxAuthCalls
NoHandle == 0                      \* a string that genHandle never returns
Tokens   == 0..MaxHandles          \* handle strings a caller may pass
AuthURIs == {"uri1", "uri2"}       \* URIs the authenticator may grant
NoApp    == 0

VARIABLES
  handles,      \* helpers: Map handle -> {app, netObj}
  nextHandle,   \* helpers: the next fresh handle
  apps,         \* safe-app: state of every SAFEApp object ever created
  calls,        \* the promises not yet settled, by slot
  authQ,        \* ipc: per slot, the requests sent whose callback is pending
  last          \* the promise the last step settled, as its caller sees it

vars == <<handles, nextHandle, apps, calls, authQ, last>>

\* ----------------------------------------------------------------- values
NoObj  == [app |-> NoApp, netObj |-> "none"]
NoOut  == [kind |-> "pending", val |-> "-", h |-> NoHandle]
Ok(v)  == [kind |-> "ok", val |-> v, h |-> NoHandle]
OkH(h) == [kind |-> "ok", val |-> "handle", h |-> h]
Err(e) == [kind |-> "err", val |-> e, h |-> NoHandle]
NewApp == [connected |-> FALSE, registered |-> FALSE]
Bool(b) == IF b THEN "true" ELSE "false"

\* A slot holding no call.  op, tok, arg: the call; obj: the entry getObj
\* gave it; sent: the requests it has handed to ipc.sendAuthReq; tokAt:
\* what the registry held for tok when the call was made; chained: the
\* call was made with the AuthURI the step before resolved authorise with.
Idle == [op |-> "idle", tok |-> NoHandle, arg |-> "-", pc |-> "idle",
         obj |-> NoObj, tokAt |-> "-", sent |-> 0, chained |-> FALSE]

\* The last step settled no promise.  Otherwise, slot and call: the settled
\* call; out: its result; by: the slot of the call whose callback settled
\* it (0: not settled by a callback); cb: what that callback was invoked
\* with.
NoLast == [slot |-> 0, call |-> Idle, out |-> NoOut, by |-> 0, cb |-> NoOut]

\* What the registry holds for a token.
TokState(h) == IF h \in DOMAIN handles THEN "live"
               ELSE IF h = NoHandle THEN "never" ELSE "freed"

\* The strings a caller can hold: the handles returned so far, and a
\* string that is no handle.
Known(h) == h < nextHandle

\* ---------------------------------------------------------------- manifest
\* module.exports.manifest: the operations the host exposes to callers,
\* with the way each returns.
manifest ==
  [initialise |-> "promise", connect |-> "promise", authorise |-> "promise",
   connectAuthorised |-> "promise", webFetch |-> "promise",
   isRegistered |-> "promise", canAccessContainer |-> "promise",
   refreshContainersPermissions |-> "promise",
   getContainersNames |-> "promise", getHomeContainer |-> "promise",
   getContainer |-> "promise", free |-> "sync"]

\* The operations the module exports (module.exports.<name> = ...).
exports ==
  {"initialise", "connect", "authorise", "connectAuthorised",
   "authoriseContainer", "webFetch", "isRegistered", "networkState",
   "canAccessContainer", "refreshContainersPermissions",
   "getContainersNames", "getHomeContainer", "getContainer", "free"}

\* ------------------------------------------------------- helpers (registry)
\* getObj(handle): the entry, or a rejection.
getObj(handle) ==
  IF handle \in DOMAIN handles
    THEN [ok |-> TRUE, obj |-> handles[handle]]
    ELSE [ok |-> FALSE, obj |-> NoObj]

\* genHandle(app, netObj): a fresh handle for a new entry.
genHandle(app, netObj) ==
  /\ nextHandle <= MaxHandles
  /\ handles' = [h \in DOMAIN handles \cup {nextHandle} |->
                   IF h = nextHandle THEN [app |-> app, netObj |-> netObj]
                                     ELSE handles[h]]
  /\ nextHandle' = nextHandle + 1

\* freeObj(handle): drops the entry of the handle, if there is one.
freeObj(handle) ==
  /\ handles' = [h \in DOMAIN handles \ {handle} |-> handles[h]]
  /\ UNCHANGED nextHandle

\* ---------------------------------------------------------------- Init
Init ==
  /\ handles = << >>
  /\ nextHandle = 1
  /\ apps = << >>
  /\ calls = [c \in Slots |-> Idle]
  /\ authQ = [c \in Slots |-> 0]
  /\ last = NoLast

\* ------------------------------------------------------- call bookkeeping
\* The caller takes the lowest slot that holds no promise and that no
\* pending callback refers to.
FreeSlot(c) ==
  /\ calls[c].op = "idle" /\ authQ[c] = 0
  /\ \A d \in Slots : d < c => (calls[d].op # "idle" \/ authQ[d] # 0)

\* What the caller of `call` sees when its promise settles with `out`.
Seen(c, call, out) ==
  [NoLast EXCEPT !.slot = c, !.call = call, !.out = out]

\* The promise of call c settles with `out`: its slot is free again.
Settle(c, out) ==
  /\ calls' = [calls EXCEPT ![c] = Idle]
  /\ last' = Seen(c, calls[c], out)

\* A step that settles no promise.
Quiet == last' = NoLast

\* The caller passes on what the step before gave it: connectAuthorised
\* with the URI that authorise has just resolved with, on the same token.
Chained(op, tok, arg) ==
  /\ op = "connectAuthorised"
  /\ last.call.op = "authorise" /\ last.call.tok = tok
  /\ last.out = Ok(arg)

\* A call as the exported function receives it.
Call(op, tok, arg) ==
  [Idle EXCEPT !.op = op, !.tok = tok, !.arg = arg, !.pc = "native",
               !.obj = getObj(tok).obj, !.tokAt = TokState(tok),
               !.chained = Chained(op, tok, arg)]

\* The first links of every chain: getObj(tok), and on success the
\* continuation that calls the native method (the call is then in flight);
\* on failure the promise is rejected with getObj's error.
Resolve(c, op, tok, arg) ==
  /\ FreeSlot(c)
  /\ Known(tok)
  /\ IF getObj(tok).ok
       THEN calls' = [calls EXCEPT ![c] = Call(op, tok, arg)] /\ Quiet
       ELSE last' = Seen(c, Call(op, tok, arg), Err("UnknownHandle"))
            /\ UNCHANGED calls
  /\ UNCHANGED <<handles, nextHandle, apps, authQ>>

\* The native call of call c has settled.
Returned(c, op) == calls[c].op = op /\ calls[c].pc = "native"

\* ------------------------------------------------- safe-app (native library)
\* auth.connectUnregistered(): a read-only connection.
connectUnregistered(app) ==
  [apps EXCEPT ![app] = [connected |-> TRUE, registered |-> FALSE]]

\* auth.loginFromURI(uri): a registered connection, when the URI is a grant.
loginFromURI(app, uri) ==
  IF uri \in AuthURIs
    THEN [apps EXCEPT ![app] = [connected |-> TRUE, registered |-> TRUE]]
    ELSE apps

\* A native call that needs the session's connection: InvalidSession
\* without one.
OnConnection(app, out) ==
  IF apps[app].connected THEN out ELSE Err("InvalidSession")

\* ------------------------------------------------------------- safeApp API
\* initialise(appInfo): initializeApp, then genHandle(app, null).  The
\* function is an arrow function of the module, whose `this` has no sender:
\* appInfo.scope is always set to null, and is not kept in the model.
initialise(c, appInfo) ==
  /\ FreeSlot(c)
  /\ Cardinality(DOMAIN apps) < MaxApps
  /\ calls' = [calls EXCEPT ![c] =
       [Idle EXCEPT !.op = "initialise", !.arg = appInfo, !.pc = "native"]]
  /\ Quiet
  /\ UNCHANGED <<handles, nextHandle, apps, authQ>>

initialise_done(c) ==
  /\ Returned(c, "initialise")
  /\ IF calls[c].arg = "valid"
       THEN /\ genHandle(nextHandle, "null")
            /\ apps' = [a \in DOMAIN apps \cup {nextHandle} |->
                          IF a = nextHandle THEN NewApp ELSE apps[a]]
            /\ Settle(c, OkH(nextHandle))
       ELSE /\ Settle(c, Err("OperationFailed"))
            /\ UNCHANGED <<handles, nextHandle, apps>>
  /\ UNCHANGED authQ

\* Mutant of connect: the session is taken from the token itself, without
\* asking the registry.
connect_unresolved(c, appToken) ==
  /\ FreeSlot(c)
  /\ appToken \in DOMAIN apps
  /\ calls' = [calls EXCEPT ![c] =
       [Call("connect", appToken, "-")
          EXCEPT !.obj = [app |-> appToken, netObj |-> "null"]]]
  /\ Quiet
  /\ UNCHANGED <<handles, nextHandle, apps, authQ>>

\* connect(appToken): getObj, connectUnregistered, then the same token.
connect(c, appToken) == Resolve(c, "connect", appToken, "-")

\* Mutant of connect_done: the last continuation, which returns the token,
\* is missing.
connect_done_noToken(c) ==
  /\ Returned(c, "connect")
  /\ apps' = connectUnregistered(calls[c].obj.app)
  /\ Settle(c, Ok("undefined"))
  /\ UNCHANGED <<handles, nextHandle, authQ>>

connect_done(c) ==
  /\ Returned(c, "connect")
  /\ apps' = connectUnregistered(calls[c].obj.app)
  /\ Settle(c, OkH(calls[c].tok))
  /\ UNCHANGED <<handles, nextHandle, authQ>>

\* ------------------------------------------------------ ipc (authenticator)
\* ipc.sendAuthReq(req, cb): hands the request to the authenticator and
\* keeps the callback, which is the closure of the call in slot c.
sendAuthReq(c) == authQ' = [authQ EXCEPT ![c] = @ + 1]

\* What the authenticator can invoke a callback with: (err, null) or
\* (null, AuthURI).
Responses == {Err("denied")} \cup {Ok(u) : u \in AuthURIs}

\* The body of the callback given to sendAuthReq by call c, invoked with
\* r: reject(...) for an error, resolve(res) otherwise, on the promise of
\* the call `to`, which is pending.
Invoke(c, to, r) ==
  /\ calls' = [calls EXCEPT ![to] = Idle]
  /\ last' = [slot |-> to, call |-> calls[to],
              out |-> IF r.kind = "err" THEN Err("AuthorizationDenied")
                                        ELSE Ok(r.val),
              by |-> c, cb |-> r]

\* The authenticator answers a request: it invokes the callback, and drops
\* it.
Callback(c, to, r) ==
  /\ authQ[c] > 0
  /\ authQ' = [authQ EXCEPT ![c] = @ - 1]
  /\ Invoke(c, to, r)
  /\ UNCHANGED <<handles, nextHandle, apps>>

\* auth.genAuthUri / genContainerAuthUri: permissions that name no known
\* permission are refused as the request is built, in the turn of the
\* call; the others are encoded by the native library, which takes a turn.
Encode(c, op, tok, permissions) ==
  IF getObj(tok).ok /\ permissions # "valid"
    THEN /\ FreeSlot(c)
         /\ Known(tok)
         /\ last' = Seen(c, Call(op, tok, permissions), Err("OperationFailed"))
         /\ UNCHANGED <<handles, nextHandle, apps, calls, authQ>>
    ELSE Resolve(c, op, tok, permissions)

\* Mutant of Dispatch: the request is sent again when it has been sent.
Dispatch_retry(c) ==
  /\ authQ' = [authQ EXCEPT ![c] = @ + 2]
  /\ calls' = [calls EXCEPT ![c].pc = "dispatched", ![c].sent = @ + 2]
  /\ Quiet
  /\ UNCHANGED <<handles, nextHandle, apps>>

\* The request descriptor is built: it is sent, once, with the callback.
Dispatch(c) ==
  /\ sendAuthReq(c)
  /\ calls' = [calls EXCEPT ![c].pc = "dispatched", ![c].sent = @ + 1]
  /\ Quiet
  /\ UNCHANGED <<handles, nextHandle, apps>>

\* Mutant of authorise: the chain has no .catch(reject), so a failure of
\* getObj or of genAuthUri never reaches the promise.
authorise_noCatch(c, appToken, permissions) ==
  IF getObj(appToken).ok /\ permissions = "valid"
    THEN Resolve(c, "authorise", appToken, permissions)
    ELSE /\ FreeSlot(c)
         /\ Known(appToken)
         /\ calls' = [calls EXCEPT ![c] =
              [Call("authorise", appToken, permissions) EXCEPT !.pc = "stuck"]]
         /\ Quiet
         /\ UNCHANGED <<handles, nextHandle, apps, authQ>>

\* authorise(appToken, permissions, options): getObj, genAuthUri, then
\* sendAuthReq with the callback that settles the promise.  The options go
\* into the request with the permissions and are not told apart here.
authorise(c, appToken, permissions) ==
  Encode(c, "authorise", appToken, permissions)

\* Mutant of authorise_done: the promise is resolved as soon as the request
\* is sent, with the request.
authorise_done_early(c) ==
  /\ Returned(c, "authorise")
  /\ sendAuthReq(c)
  /\ Settle(c, Ok("uri1"))
  /\ UNCHANGED <<handles, nextHandle, apps>>

authorise_done(c) == Returned(c, "authorise") /\ Dispatch(c)

\* The dispatched call in the highest slot.
LatestDispatched ==
  CHOOSE d \in Slots : /\ calls[d].pc = "dispatched"
                       /\ \A e \in Slots : calls[e].pc = "dispatched" => e <= d

\* Mutant of authorise_cb: resolve and reject are kept in one module-level
\* variable, which holds those of the latest request.
authorise_cb_shared(c, r) ==
  /\ calls[c].op = "authorise" /\ calls[c].pc = "dispatched"
  /\ Callback(c, LatestDispatched, r)

\* Mutant of authorise_cb: the error is not looked at, and the session is
\* logged in with whatever the callback carries.
authorise_cb_noErr(c, r) ==
  /\ calls[c].op = "authorise" /\ calls[c].pc = "dispatched"
  /\ authQ' = [authQ EXCEPT ![c] = @ - 1]
  /\ calls' = [calls EXCEPT ![c] = Idle]
  /\ last' = [slot |-> c, call |-> calls[c], out |-> Ok(r.val), by |-> c,
              cb |-> r]
  /\ apps' = connectUnregistered(calls[c].obj.app)
  /\ UNCHANGED <<handles, nextHandle>>

\* Mutant of authorise_cb: a granted URI is redeemed by the callback itself.
authorise_cb_login(c, r) ==
  /\ calls[c].op = "authorise" /\ calls[c].pc = "dispatched"
  /\ authQ[c] > 0
  /\ authQ' = [authQ EXCEPT ![c] = @ - 1]
  /\ Invoke(c, c, r)
  /\ apps' = IF r.kind = "ok" THEN loginFromURI(calls[c].obj.app, r.val)
                              ELSE apps
  /\ UNCHANGED <<handles, nextHandle>>

authorise_cb(c, r) ==
  /\ calls[c].op = "authorise" /\ calls[c].pc = "dispatched"
  /\ Callback(c, c, r)

\* connectAuthorised(appToken, authUri): getObj, loginFromURI, same token.
connectAuthorised(c, appToken, authUri) ==
  Resolve(c, "connectAuthorised", appToken, authUri)

\* Mutant of connectAuthorised_done: connectUnregistered in the place of
\* loginFromURI.
connectAuthorised_done_unreg(c) ==
  /\ Returned(c, "connectAuthorised")
  /\ apps' = connectUnregistered(calls[c].obj.app)
  /\ Settle(c, OkH(calls[c].tok))
  /\ UNCHANGED <<handles, nextHandle, authQ>>

connectAuthorised_done(c) ==
  /\ Returned(c, "connectAuthorised")
  /\ apps' = loginFromURI(calls[c].obj.app, calls[c].arg)
  /\ Settle(c, IF calls[c].arg \in AuthURIs
                 THEN OkH(calls[c].tok) ELSE Err("OperationFailed"))
  /\ UNCHANGED <<handles, nextHandle, authQ>>

\* authoriseContainer(appToken, permissions): as authorise, with
\* genContainerAuthUri.
authoriseContainer(c, appToken, permissions) ==
  Encode(c, "authoriseContainer", appToken, permissions)

authoriseContainer_done(c) == Returned(c, "authoriseContainer") /\ Dispatch(c)

authoriseContainer_cb(c, r) ==
  /\ calls[c].op = "authoriseContainer" /\ calls[c].pc = "dispatched"
  /\ Callback(c, c, r)

\* An authenticator that does not keep to one invocation per request: it
\* invokes the callback of call c and keeps it.
authReq_cb(c, r) ==
  /\ calls[c].op \in {"authorise", "authoriseContainer"}
  /\ calls[c].pc = "dispatched"
  /\ authQ[c] > 0
  /\ Invoke(c, c, r)
  /\ UNCHANGED <<handles, nextHandle, apps, authQ>>

\* Mutant of authReq_cb_again: resolve and reject are those of the latest
\* request, so a callback invoked again settles the call that waits.
authReq_cb_again_latest(c, r) ==
  /\ calls[c].op = "idle" /\ authQ[c] > 0
  /\ IF \E d \in Slots : calls[d].pc = "dispatched"
       THEN Invoke(c, LatestDispatched, r)
       ELSE last' = [NoLast EXCEPT !.by = c, !.cb = r] /\ UNCHANGED calls
  /\ UNCHANGED <<handles, nextHandle, apps, authQ>>

\* The kept callback is invoked again: its promise is settled, and resolve
\* and reject of a settled promise do nothing.
authReq_cb_again(c, r) ==
  /\ calls[c].op = "idle" /\ authQ[c] > 0
  /\ last' = [NoLast EXCEPT !.by = c, !.cb = r]
  /\ UNCHANGED <<handles, nextHandle, apps, calls, authQ>>

\* A chain whose native call changes nothing in the model: it settles with
\* `out` when the session is connected.
Answer(c, op, out) ==
  /\ Returned(c, op)
  /\ Settle(c, OnConnection(calls[c].obj.app, out))
  /\ UNCHANGED <<handles, nextHandle, apps, authQ>>

\* webFetch(appToken, url): getObj, app.webFetch(url), then a continuation
\* that reads the variable `app`, which the module does not define.
webFetch(c, appToken, url) == Resolve(c, "webFetch", appToken, url)

webFetch_done(c) ==
  Answer(c, "webFetch", IF calls[c].arg = "found" THEN Err("ReferenceError")
                                                  ELSE Err("OperationFailed"))

\* A chain that only reads a property of the app: it settles in the turn
\* of the call.
Read(c, op, tok, val) ==
  /\ FreeSlot(c)
  /\ Known(tok)
  /\ last' = Seen(c, Call(op, tok, "-"),
                  IF getObj(tok).ok THEN Ok(val) ELSE Err("UnknownHandle"))
  /\ UNCHANGED <<handles, nextHandle, apps, calls, authQ>>

\* isRegistered(appToken): getObj, then app.auth.registered.
isRegistered(c, appToken) ==
  Read(c, "isRegistered", appToken,
       Bool(apps[getObj(appToken).obj.app].registered))

\* What isRegistered(appToken) resolves with in the current state.
IsRegisteredNow(appToken) ==
  IF getObj(appToken).ok
    THEN Ok(Bool(apps[getObj(appToken).obj.app].registered))
    ELSE Err("UnknownHandle")

\* networkState(appToken): getObj, then app.networkState.
networkState(c, appToken) ==
  Read(c, "networkState", appToken,
       IF apps[getObj(appToken).obj.app].connected THEN "Connected" ELSE "Init")

\* canAccessContainer(appToken, name, permissions)
canAccessContainer(c, appToken) == Resolve(c, "canAccessContainer", appToken, "-")

canAccessContainer_done(c) == Answer(c, "canAccessContainer", Ok("true"))

\* refreshContainersPermissions(appToken): resolves with the same token.
refreshContainersPermissions(c, appToken) ==
  Resolve(c, "refreshContainersPermissions", appToken, "-")

refreshContainersPermissions_done(c) ==
  Answer(c, "refreshContainersPermissions", OkH(calls[c].tok))

\* getContainersNames(appToken)
getContainersNames(c, appToken) == Resolve(c, "getContainersNames", appToken, "-")

\* Mutant of getContainersNames_done: the names are put in the registry and
\* their handle is returned, as for a container.
getContainersNames_done_wrap(c) ==
  /\ Returned(c, "getContainersNames")
  /\ IF apps[calls[c].obj.app].connected
       THEN genHandle(calls[c].obj.app, "names") /\ Settle(c, OkH(nextHandle))
       ELSE Settle(c, Err("InvalidSession")) /\ UNCHANGED <<handles, nextHandle>>
  /\ UNCHANGED <<apps, authQ>>

getContainersNames_done(c) == Answer(c, "getContainersNames", Ok("names"))

\* A chain that ends in genHandle(obj.app, netObj): a new handle for the
\* object the native call returned.
Wrap(c, op, netObj) ==
  /\ Returned(c, op)
  /\ IF apps[calls[c].obj.app].connected
       THEN genHandle(calls[c].obj.app, netObj) /\ Settle(c, OkH(nextHandle))
       ELSE Settle(c, Err("InvalidSession")) /\ UNCHANGED <<handles, nextHandle>>
  /\ UNCHANGED <<apps, authQ>>

\* getHomeContainer(appToken): getObj, getHomeContainer, genHandle.
getHomeContainer(c, appToken) == Resolve(c, "getHomeContainer", appToken, "-")

\* Mutant of getHomeContainer_done: the handle is made for the promise of
\* the native call, not for the object it resolves with.
getHomeContainer_done_eager(c) ==
  /\ Returned(c, "getHomeContainer")
  /\ genHandle(calls[c].obj.app, "md")
  /\ Settle(c, OkH(nextHandle))
  /\ UNCHANGED <<apps, authQ>>

getHomeContainer_done(c) == Wrap(c, "getHomeContainer", "md")

\* getContainer(appToken, name): getObj, getContainer(name), genHandle.
getContainer(c, appToken) == Resolve(c, "getContainer", appToken, "-")

getContainer_done(c) == Wrap(c, "getContainer", "md")

\* Mutant of free: a token the registry does not hold frees the entry made
\* last.
free_other(appToken) ==
  /\ Known(appToken)
  /\ IF appToken \in DOMAIN handles \/ DOMAIN handles = {}
       THEN freeObj(appToken)
       ELSE freeObj(CHOOSE h \in DOMAIN handles :
                      \A g \in DOMAIN handles : g <= h)
  /\ last' = Seen(0, [Call("free", appToken, "-") EXCEPT !.pc = "done"],
                  Ok("undefined"))
  /\ UNCHANGED <<apps, calls, authQ>>

\* Mutant of free: the calls that wait for an answer on the handle are
\* given up.
free_abandon(appToken) ==
  /\ Known(appToken)
  /\ freeObj(appToken)
  /\ calls' = [c \in Slots |->
                 IF calls[c].pc = "dispatched" /\ calls[c].tok = appToken
                   THEN Idle ELSE calls[c]]
  /\ last' = Seen(0, [Call("free", appToken, "-") EXCEPT !.pc = "done"],
                  Ok("undefined"))
  /\ UNCHANGED <<apps, authQ>>

\* Mutant of free: the entries made through the session are dropped with
\* the session's own.
free_cascade(appToken) ==
  /\ Known(appToken)
  /\ handles' = [h \in {g \in DOMAIN handles :
                          /\ g # appToken
                          /\ appToken \in DOMAIN handles
                               => handles[g].app # handles[appToken].app} |->
                   handles[h]]
  /\ UNCHANGED nextHandle
  /\ last' = Seen(0, [Call("free", appToken, "-") EXCEPT !.pc = "done"],
                  Ok("undefined"))
  /\ UNCHANGED <<apps, calls, authQ>>

\* free(appToken): freeObj.  It returns at once; the caller sees it done.
free(appToken) ==
  /\ Known(appToken)
  /\ freeObj(appToken)
  /\ last' = Seen(0, [Call("free", appToken, "-") EXCEPT !.pc = "done"],
                  Ok("undefined"))
  /\ UNCHANGED <<apps, calls, authQ>>

\* ------------------------------------------------- safeCryptoPubSignKey API
\* safeCrypto.getAppPubSignKey(appToken): the source of sign key handles.
getAppPubSignKey(c, appToken) == Resolve(c, "getAppPubSignKey", appToken, "-")

getAppPubSignKey_done(c) == Wrap(c, "getAppPubSignKey", "key")

\* A chain on the native object of the entry: obj.netObj.method(...).  An
\* entry without such an object throws in the continuation, in the turn of
\* the call.
OnNetObj(c, op, tok, arg) ==
  IF getObj(tok).ok /\ getObj(tok).obj.netObj # "key"
    THEN /\ FreeSlot(c)
         /\ Known(tok)
         /\ last' = Seen(c, Call(op, tok, arg), Err("TypeError"))
         /\ UNCHANGED <<handles, nextHandle, apps, calls, authQ>>
    ELSE Resolve(c, op, tok, arg)

\* getRaw(pubSignKeyHandle): getObj, netObj.getRaw().
getRaw(c, pubSignKeyHandle) == OnNetObj(c, "getRaw", pubSignKeyHandle, "-")

getRaw_done(c) ==
  /\ Returned(c, "getRaw")
  /\ Settle(c, Ok("raw"))
  /\ UNCHANGED <<handles, nextHandle, apps, authQ>>

\* verify(pubSignKeyHandle, data): getObj, netObj.verify(data).
verify(c, pubSignKeyHandle, data) == OnNetObj(c, "verify", pubSignKeyHandle, data)

\* Mutant of verify_done: the key is released once it has been used.
verify_done_release(c) ==
  /\ Returned(c, "verify")
  /\ Settle(c, IF calls[c].arg = "signed" THEN Ok("data")
                                          ELSE Err("OperationFailed"))
  /\ freeObj(calls[c].tok)
  /\ UNCHANGED <<apps, authQ>>

verify_done(c) ==
  /\ Returned(c, "verify")
  /\ Settle(c, IF calls[c].arg = "signed" THEN Ok("data")
                                          ELSE Err("OperationFailed"))
  /\ UNCHANGED <<handles, nextHandle, apps, authQ>>

\* free(pubSignKeyHandle) of the sign key module: freeObj.
freePubSignKey(pubSignKeyHandle) ==
  /\ Known(pubSignKeyHandle)
  /\ freeObj(pubSignKeyHandle)
  /\ last' = Seen(0, [Call("freePubSignKey", pubSignKeyHandle, "-")
                        EXCEPT !.pc = "done"], Ok("undefined"))
  /\ UNCHANGED <<apps, calls, authQ>>

\* ------------------------------------------------------- specifications
\* The operations on sessions and their authorisation, by the callers'
\* slots S.
SessionOps(S) ==
  \/ \E c \in S : initialise_done(c)
  \/ \E c \in S, t \in Tokens : connect(c, t)
  \/ \E c \in S : connect_done(c)
  \/ \E c \in S, t \in Tokens, p \in {"valid", "invalid"} : authorise(c, t, p)
  \/ \E c \in S : authorise_done(c)
  \/ \E c \in S, r \in Responses : authorise_cb(c, r)
  \/ \E c \in S, t \in Tokens, u \in AuthURIs \cup {"bad"} :
       connectAuthorised(c, t, u)
  \/ \E c \in S : connectAuthorised_done(c)
  \/ \E c \in S, t \in Tokens, p \in {"valid", "invalid"} :
       authoriseContainer(c, t, p)
  \/ \E c \in S : authoriseContainer_done(c)
  \/ \E c \in S, r \in Responses : authoriseContainer_cb(c, r)
  \/ \E c \in S, t \in Tokens : isRegistered(c, t)
  \/ \E t \in Tokens : free(t)

\* The other operations.
DataOps(S) ==
  \/ \E c \in S, t \in Tokens, u \in {"found", "missing"} : webFetch(c, t, u)
  \/ \E c \in S : webFetch_done(c)
  \/ \E c \in S, t \in Tokens : networkState(c, t)
  \/ \E c \in S, t \in Tokens : canAccessContainer(c, t)
  \/ \E c \in S : canAccessContainer_done(c)
  \/ \E c \in S, t \in Tokens : refreshContainersPermissions(c, t)
  \/ \E c \in S : refreshContainersPermissions_done(c)
  \/ \E c \in S, t \in Tokens : getContainersNames(c, t)
  \/ \E c \in S : getContainersNames_done(c)
  \/ \E c \in S, t \in Tokens : getHomeContainer(c, t)
  \/ \E c \in S : getHomeContainer_done(c)
  \/ \E c \in S, t \in Tokens : getContainer(c, t)
  \/ \E c \in S : getContainer_done(c)
  \/ \E c \in S, t \in Tokens : getAppPubSignKey(c, t)
  \/ \E c \in S : getAppPubSignKey_done(c)
  \/ \E c \in S, t \in Tokens : getRaw(c, t)
  \/ \E c \in S : getRaw_done(c)
  \/ \E c \in S, t \in Tokens, d \in {"signed", "forged"} : verify(c, t, d)
  \/ \E c \in S : verify_done(c)
  \/ \E t \in Tokens : freePubSignKey(t)

\* A caller that awaits each promise before its next call, and frees
\* handles at any time: every operation, on up to MaxApps sessions.
Next ==
  \/ \E i \in {"valid", "invalid"} : initialise(1, i)
  \/ SessionOps({1})
  \/ DataOps({1})

Spec == Init /\ [][Next]_vars

\* The callers of one session, who do not await each other: the session
\* operations, up to MaxAuthCalls promises at a time.
NextAuth ==
  \/ \E c \in Slots, i \in {"valid", "invalid"} :
       /\ apps = << >> /\ \A d \in Slots : calls[d].op # "initialise"
       /\ initialise(c, i)
  \/ SessionOps(Slots)

SpecAuth == Init /\ [][NextAuth]_vars

\* The same callers, with an authenticator that may invoke a callback late
\* and more than once.
NextStray ==
  \/ NextAuth
  \/ \E c \in Slots, r \in Responses : authReq_cb(c, r)
  \/ \E c \in Slots, r \in Responses : authReq_cb_again(c, r)

SpecStray == Init /\ [][NextStray]_vars

\* ------------------------------------------------------------------ claims
\* The operations that take a handle and return a promise.
HandleOps ==
  {"connect", "authorise", "authoriseContainer", "connectAuthorised",
   "webFetch", "isRegistered", "networkState", "canAccessContainer",
   "refreshContainersPermissions", "getContainersNames", "getHomeContainer",
   "getContainer", "getAppPubSignKey", "getRaw", "verify"}

FreeOps == {"free", "freePubSignKey"}

\* C1: an operation started with a handle that was freed before fails with
\* UnknownHandle and is given no object: no call in flight was made with a
\* freed handle, and a call made with one is rejected in its own turn with
\* getObj's error, holding no entry.
C1_FreedHandleFails ==
  /\ \A c \in Slots : calls[c].op \in HandleOps => calls[c].tokAt = "live"
  /\ (last.call.op \in HandleOps /\ last.call.tokAt = "freed")
       => (last.out = Err("UnknownHandle") /\ last.call.obj = NoObj)

\* C1 witness: verify was called with a sign key handle that had been
\* freed, and was rejected.
C1_Witness ==
  /\ last.call.op = "verify" /\ last.call.tokAt = "freed"
  /\ last.out = Err("UnknownHandle")

\* C2: an operation whose handle is freed while it is in flight fails with
\* UnknownHandle: no step settles a promise in any other way for a handle
\* the registry no longer holds.  (The code violates this.)
C2_NoUseAfterFree ==
  (last.call.op \in HandleOps /\ last.call.tok \notin DOMAIN handles)
    => last.out = Err("UnknownHandle")

\* C3: an authorise call sends at most one request; while it waits, one
\* request is sent and its callback is pending; and it resolves only by
\* the callback of the request it sent, with the URI the callback carried.
C3_AuthoriseResolvesByCallback ==
  /\ \A c \in Slots : calls[c].op = "authorise" =>
       /\ calls[c].sent = (IF calls[c].pc = "dispatched" THEN 1 ELSE 0)
       /\ authQ[c] = calls[c].sent
  /\ (last.call.op = "authorise" /\ last.out.kind = "ok") =>
       /\ last.call.sent = 1 /\ last.call.pc = "dispatched"
       /\ last.by = last.slot
       /\ last.cb.kind = "ok" /\ last.cb.val \in AuthURIs
       /\ last.out = Ok(last.cb.val)

\* C3 witness: authorise on a live session has resolved with uri2.
C3_Witness ==
  /\ last.call.op = "authorise" /\ last.call.tokAt = "live"
  /\ last.out = Ok("uri2")

\* C4: a callback settles the call that sent its request, and no other,
\* with what the callback carried; a call still waiting keeps its own
\* pending callback.
C4_CorrelationsIndependent ==
  /\ last.by # 0 =>
       /\ last.slot = last.by
       /\ last.call.pc = "dispatched"
       /\ last.out = (IF last.cb.kind = "err" THEN Err("AuthorizationDenied")
                                             ELSE Ok(last.cb.val))
  /\ \A c \in Slots : calls[c].pc = "dispatched" => authQ[c] = 1

\* C4 witness: two calls on one session were waiting, and the callback of
\* the second has fired first.
C4_Witness ==
  /\ last.by = 2 /\ last.call.op \in {"authorise", "authoriseContainer"}
  /\ calls[1].pc = "dispatched" /\ calls[1].tok = last.call.tok

\* The requests of a session whose callback is pending.
PendingOf(app) == {c \in Slots : authQ[c] > 0 /\ calls[c].obj.app = app}

\* C5 as claimed: a session has at most one request whose response is
\* pending.  (Two calls made one after the other violate it.)
C5_OnePendingPerSession ==
  \A a \in DOMAIN apps : Cardinality(PendingOf(a)) <= 1

\* C5 as amended: each call has sent at most one request and has at most
\* one callback pending, and only while it waits for it.
C5_OnePendingPerCall ==
  \A c \in Slots :
    /\ calls[c].sent <= 1 /\ authQ[c] <= 1
    /\ authQ[c] = 1 => (calls[c].pc = "dispatched" /\ calls[c].sent = 1)

\* C5 witness: two requests of one session are pending, one per call.
C5_Witness ==
  \E a \in DOMAIN apps : Cardinality(PendingOf(a)) = 2

\* C6: the step in which an authorise callback fires with an error rejects
\* the promise with AuthorizationDenied and changes no session and no
\* registry entry.
C6_DeniedLeavesSession ==
  [][(last'.by # 0 /\ last'.call.op = "authorise" /\ last'.cb.kind = "err")
       => (/\ last'.out = Err("AuthorizationDenied")
           /\ apps' = apps /\ handles' = handles)]_vars

\* C6 witness: authorise on a session that was only initialised has been
\* denied, and the session is as initialise left it.
C6_Witness ==
  /\ last.by # 0 /\ last.call.op = "authorise" /\ last.cb.kind = "err"
  /\ last.out = Err("AuthorizationDenied")
  /\ apps[last.call.obj.app] = NewApp

\* C7: no step makes a registered session unregistered.  (connect after
\* connectAuthorised violates it.)
C7_AuthNeverBackward ==
  [][\A a \in DOMAIN apps : apps[a].registered => apps'[a].registered]_vars

\* C8: connectAuthorised called on a live session with the URI authorise
\* has just resolved with returns the same handle and leaves the session
\* connected and registered, so that isRegistered answers true.
C8_RoundTrip ==
  (last.call.op = "connectAuthorised" /\ last.call.chained
     /\ last.call.tokAt = "live")
    => /\ last.out = OkH(last.call.tok)
       /\ apps[last.call.obj.app] = [connected |-> TRUE, registered |-> TRUE]
       /\ last.call.tok \in DOMAIN handles
            => IsRegisteredNow(last.call.tok) = Ok("true")

\* C8 witness: the round trip has completed on a session still registered
\* under its handle.
C8_Witness ==
  /\ last.call.op = "connectAuthorised" /\ last.call.chained
  /\ last.out = OkH(last.call.tok)
  /\ IsRegisteredNow(last.call.tok) = Ok("true")

\* C9: initialise registers a session that has no connection and returns
\* its handle; connect on a live handle returns that handle and leaves the
\* session connected and unregistered, so that isRegistered answers false.
C9_InitialiseThenConnect ==
  /\ (last.call.op = "initialise" /\ last.out.kind = "ok") =>
       /\ last.out.h \in DOMAIN handles
       /\ handles[last.out.h] = [app |-> last.out.h, netObj |-> "null"]
       /\ apps[last.out.h] = NewApp
  /\ (last.call.op = "connect" /\ last.call.tokAt = "live") =>
       /\ last.out = OkH(last.call.tok)
       /\ apps[last.call.obj.app] = [connected |-> TRUE, registered |-> FALSE]
       /\ last.call.tok \in DOMAIN handles
            => IsRegisteredNow(last.call.tok) = Ok("false")

\* C9 witness: connect has returned the handle initialise gave, and the
\* session is connected and unregistered.
C9_Witness ==
  /\ last.call.op = "connect" /\ last.out = OkH(1)
  /\ 1 \in DOMAIN handles /\ handles[1] = [app |-> 1, netObj |-> "null"]
  /\ IsRegisteredNow(1) = Ok("false")

\* C10: free of a handle the registry does not hold (freed before, or
\* never given out) leaves the registry as it is.
C10_FreeUnknownKeepsOthers ==
  [][(last'.call.op \in FreeOps /\ last'.call.tokAt # "live")
       => handles' = handles]_vars

\* C10 witness: a handle was freed a second time while another handle is
\* live.
C10_Witness ==
  /\ last.call.op = "free" /\ last.call.tokAt = "freed"
  /\ DOMAIN handles # {}

\* C11: the step in which getHomeContainer, called on a live handle of a
\* session that was initialised and never connected, settles: it rejects
\* with InvalidSession and gives out no handle, the registry staying as it
\* was.
C11_CreatedRejectsHome ==
  [][(/\ last'.call.op = "getHomeContainer" /\ last'.call.tokAt = "live"
      /\ apps[last'.call.obj.app] = NewApp)
       => (/\ last'.out = Err("InvalidSession")
           /\ handles' = handles /\ nextHandle' = nextHandle)]_vars

\* C11 witness: getHomeContainer on the handle initialise returned, with no
\* connect in between, was rejected, and the session's handle is the only
\* one ever given out.
C11_Witness ==
  /\ last.call.op = "getHomeContainer" /\ last.out = Err("InvalidSession")
  /\ last.call.tok \in DOMAIN handles /\ nextHandle = 2
  /\ apps[last.call.obj.app] = NewApp

QueryOps ==
  {"isRegistered", "networkState", "canAccessContainer", "getContainersNames"}

\* A step of a query: the call of one, or the step that settles one.
QueryStep ==
  \/ last'.call.op \in QueryOps
  \/ \E c \in Slots : calls'[c] # calls[c] /\ calls'[c].op \in QueryOps

\* C12 as claimed: a query on a handle the registry does not hold, or on a
\* session without connection, fails with InvalidSession.  (An unknown
\* handle fails with the registry's error, and isRegistered and
\* networkState answer for a session that was only initialised.)
C12_QueriesNeedConnection ==
  (/\ last.call.op \in QueryOps
   /\ (last.call.tokAt # "live" \/ ~apps[last.call.obj.app].connected))
    => last.out = Err("InvalidSession")

\* C12 as amended: a query on a handle the registry does not hold fails
\* with UnknownHandle; on a session without connection canAccessContainer
\* and getContainersNames fail with InvalidSession, while isRegistered and
\* networkState answer with the session's properties; and no step of a
\* query changes a session or the registry.
C12_QueriesReadOnly ==
  /\ [](last.call.op \in QueryOps =>
          IF last.call.tokAt # "live"
            THEN last.out = Err("UnknownHandle")
          ELSE IF last.call.op = "isRegistered"
            THEN last.out = Ok(Bool(apps[last.call.obj.app].registered))
          ELSE IF last.call.op = "networkState"
            THEN last.out = Ok(IF apps[last.call.obj.app].connected
                                 THEN "Connected" ELSE "Init")
          ELSE IF apps[last.call.obj.app].connected
            THEN last.out.kind = "ok"
            ELSE last.out = Err("InvalidSession"))
  /\ [][QueryStep => (/\ apps' = apps /\ handles' = handles
                      /\ nextHandle' = nextHandle)]_vars

\* C12 witness: isRegistered has answered false for a session that was
\* initialised and never connected.
C12_Witness ==
  /\ last.call.op = "isRegistered" /\ last.call.tokAt = "live"
  /\ apps[last.call.obj.app] = NewApp
  /\ last.out = Ok("false")

\* C13: webFetch on a live handle of a connected session, for a URL the
\* lookup finds, resolves with the bytes of the object.  (The code rejects
\* every such call.)
C13_WebFetchResolves ==
  (/\ last.call.op = "webFetch" /\ last.call.tokAt = "live"
   /\ last.call.tok \in DOMAIN handles
   /\ last.call.arg = "found"
   /\ apps[last.call.obj.app].connected)
    => last.out = Ok("bytes")

\* C15: free of a live handle removes the entry of that handle and no
\* other: every other entry, those made through the freed session included,
\* is held as before.
C15_FreeDoesNotCascade ==
  [][(last'.call.op \in FreeOps /\ last'.call.tokAt = "live")
       => (/\ DOMAIN handles' = DOMAIN handles \ {last'.call.tok}
           /\ \A h \in DOMAIN handles' : handles'[h] = handles[h])]_vars

\* C15 witness: the session's handle has been freed and the handle of the
\* container obtained through it still resolves to the container.
C15_Witness ==
  /\ last.call.op = "free" /\ last.call.tokAt = "live" /\ last.call.tok = 1
  /\ last.call.obj = [app |-> 1, netObj |-> "null"]
  /\ getObj(2).ok /\ getObj(2).obj = [app |-> 1, netObj |-> "md"]

KeyOps == {"getRaw", "verify"}

\* A step of a sign key operation: its call, or the step that settles it.
KeyStep ==
  \/ last'.call.op \in KeyOps
  \/ \E c \in Slots : calls'[c] # calls[c] /\ calls'[c].op \in KeyOps

\* C16 as claimed: getRaw and verify on a handle the registry does not hold
\* fail with InvalidHandle.  (They fail with the registry's own error,
\* UnknownHandle, which they pass on.)
C16_InvalidHandle ==
  (last.call.op \in KeyOps /\ last.call.tokAt # "live")
    => last.out = Err("InvalidHandle")

\* C16 as amended: getRaw and verify on a handle the registry does not hold
\* fail with UnknownHandle; verify of data the key did not sign fails with
\* OperationFailed; and no step of either changes the registry.
C16_KeyOpsKeepRegistry ==
  /\ []((last.call.op \in KeyOps /\ last.call.tokAt # "live")
          => last.out = Err("UnknownHandle"))
  /\ []((/\ last.call.op = "verify" /\ last.call.tokAt = "live"
         /\ last.call.obj.netObj = "key" /\ last.call.arg = "forged")
          => last.out = Err("OperationFailed"))
  /\ [][KeyStep => (handles' = handles /\ nextHandle' = nextHandle)]_vars

\* C16 witness: verify of forged data has failed with OperationFailed and
\* the key's handle and the session's handle still resolve.
C16_Witness ==
  /\ last.call.op = "verify" /\ last.out = Err("OperationFailed")
  /\ getObj(last.call.tok).ok /\ getObj(last.call.tok).obj.netObj = "key"
  /\ getObj(1).ok

AuthOps == {"authorise", "authoriseContainer"}

\* C14: a call that waits for its callback is settled by no step but the
\* invocation of its own callback: until then it stays as it is, whatever
\* else happens.
C14_OnlyOwnCallbackSettles ==
  [][\A c \in Slots :
       (calls[c].pc = "dispatched" /\ calls'[c] # calls[c])
         => (last'.by = c /\ last'.slot = c /\ last'.call = calls[c])]_vars

\* C14 witness: a call still waits after its session's handle was freed
\* and the callback of a later call on that session has fired.
C14_Witness ==
  /\ calls[1].op \in AuthOps /\ calls[1].pc = "dispatched" /\ authQ[1] = 1
  /\ calls[1].tok \notin DOMAIN handles
  /\ last.by = 2 /\ last.call.tok = calls[1].tok

\* A step of an authorise or authoriseContainer call.
AuthStep ==
  \/ last'.call.op \in AuthOps
  \/ \E c \in Slots : /\ calls'[c] # calls[c]
                       /\ (calls[c].op \in AuthOps \/ calls'[c].op \in AuthOps)

\* C18: no step of an authorise or authoriseContainer call, the granted
\* callback included, changes a session; a session becomes registered only
\* in the step in which connectAuthorised, called on it with an AuthURI,
\* resolves.
C18_GrantDoesNotPromote ==
  /\ [][AuthStep => apps' = apps]_vars
  /\ [][\A a \in DOMAIN apps :
          (apps'[a].registered /\ ~apps[a].registered)
            => (/\ last'.call.op = "connectAuthorised"
                /\ last'.call.arg \in AuthURIs
                /\ last'.call.obj.app = a
                /\ last'.out = OkH(last'.call.tok))]_vars

\* C18 witness: authoriseContainer on a connected, unregistered session has
\* resolved with an AuthURI, and the session is still unregistered.
C18_Witness ==
  /\ last.by # 0 /\ last.call.op = "authoriseContainer"
  /\ last.out = Ok("uri1")
  /\ apps[last.call.obj.app] = [connected |-> TRUE, registered |-> FALSE]

\* C19: an authorise or authoriseContainer call whose handle does not
\* resolve, or whose request cannot be built, is rejected in its own turn
\* and is never in flight: it has sent no request and no callback is kept
\* for it.
C19_FailureBeforeDispatch ==
  /\ \A c \in Slots : calls[c].op \in AuthOps =>
       (calls[c].tokAt = "live" /\ calls[c].arg = "valid")
  /\ (/\ last.call.op \in AuthOps
      /\ (last.call.tokAt # "live" \/ last.call.arg # "valid")) =>
       /\ last.out = (IF last.call.tokAt # "live" THEN Err("UnknownHandle")
                                                  ELSE Err("OperationFailed"))
       /\ last.by = 0 /\ last.call.sent = 0
       /\ calls[last.slot].op = "idle" /\ authQ[last.slot] = 0

\* C19 witness: authorise with permissions the request cannot be built
\* from was rejected, while the request of an earlier call is the only one
\* pending.
C19_Witness ==
  /\ last.call.op = "authorise" /\ last.call.tokAt = "live"
  /\ last.call.arg = "invalid" /\ last.out = Err("OperationFailed")
  /\ last.slot = 2 /\ authQ = [c \in Slots |-> IF c = 1 THEN 1 ELSE 0]

\* C17: no invocation of a callback changes the registry or a session; an
\* invocation settles a promise only if it is the first for its request,
\* and a later one changes nothing.
C17_StrayCallbackHarmless ==
  /\ [][last'.by # 0 => (/\ handles' = handles /\ nextHandle' = nextHandle
                         /\ apps' = apps)]_vars
  /\ [][\A c \in Slots :
          (last'.by = c /\ calls[c].pc # "dispatched")
            => (calls' = calls /\ last'.slot = 0 /\ last'.out = NoOut)]_vars
  /\ [][(last'.by # 0 /\ last'.slot # 0)
          => (/\ last'.slot = last'.by
              /\ calls[last'.slot].pc = "dispatched"
              /\ calls'[last'.slot] = Idle)]_vars

\* C17 witness: a callback was invoked again after its call was settled and
\* the session's handle, the only one ever given out, was freed.
C17_Witness ==
  /\ last.by # 0 /\ last.slot = 0 /\ last.cb.kind = "ok"
  /\ handles = << >> /\ nextHandle = 2

\* The operations of which a call is in flight or has just been settled.
Called == {calls[c].op : c \in Slots} \cup {last.call.op}

\* C20: every operation the module exports has an entry in the manifest:
\* whichever exported operation a caller uses, the manifest names it.
\* (authoriseContainer and networkState have no entry.)
C20_ManifestComplete ==
  \A op \in exports \cap Called : op \in DOMAIN manifest
====
